---- MODULE Spec2Model ----
(***************************************************************************)
(* Model of the VW New Beetle dashboard firmware (dashboard.ino and its    *)
(* second variant): the boot-time homing of the three gauge steppers, the  *)
(* serial receive handler, the command parser and the control loop.        *)
(*                                                                         *)
(* Text is a sequence of one-character strings.  The float arguments of    *)
(* the set* functions are carried as fixed-point decimals; for the values  *)
(* used here (|value| <= 6000) the single-precision product converted to   *)
(* long equals the exact decimal product truncated toward zero.            *)
(* The AccelStepper class is not part of the sources; its operations are   *)
(* modelled from the Motion Controller contract of the specification, with *)
(* the speed carried as a ramp level: the number of steps the axis still   *)
(* needs to come to a halt (v^2 = 2*a*d), signed by direction.             *)
(***************************************************************************)
EXTENDS Integers, Sequences, FiniteSets

\* ------------------------------------------------------------------ bounds
\* lines the host sends in a run of the small script
MaxLines == 2
\* run() calls of one axis, per motion, that find the step interval not elapsed
MaxStall == 1

\* ------------------------------------------------------- program constants
STEPS == 500
TACH_ZERO == 19
TACH_SPEED == 750
TACH_ACCEL == 500
FUEL_ZERO == 17
FUEL_SPEED == 125
FUEL_ACCEL == 100
SPEEDO_ZERO == 13
SPEEDO_SPEED == 250
SPEEDO_ACCEL == 250
\* TACH_SCALE = 0.057 and SPEED_SCALE_MPH = 1.785 in thousandths,
\* FUEL_SCALE = 3.25 in hundredths, the km/h factor 0.62137 in 1e-5
TACH_SCALE == 57
FUEL_SCALE == 325
SPEED_SCALE_MPH == 1785
KMH_TO_MPH == 62137

Axes == {"speedo", "tach", "fuel"}

\* ------------------------------------------------------------------- text
Digits == {"0", "1", "2", "3", "4", "5", "6", "7", "8", "9"}

DigitVal(c) ==
  CASE c = "0" -> 0 [] c = "1" -> 1 [] c = "2" -> 2 [] c = "3" -> 3
    [] c = "4" -> 4 [] c = "5" -> 5 [] c = "6" -> 6 [] c = "7" -> 7
    [] c = "8" -> 8 [] c = "9" -> 9

\* String::indexOf(ch): 0-based index of the first occurrence, -1 if none
indexOf(s, c) ==
  IF \E i \in 1..Len(s) : s[i] = c
  THEN (CHOOSE i \in 1..Len(s) : s[i] = c /\ \A j \in 1..(i-1) : s[j] # c) - 1
  ELSE -1

\* String::substring(from, to): the characters at 0-based [from, to)
substring(s, from, to) == SubSeq(s, from + 1, to)

\* String::substring(from): from the 0-based index to the end
substringFrom(s, from) == SubSeq(s, from + 1, Len(s))

HasNewline(s) == \E i \in 1..Len(s) : s[i] = "\n"

RECURSIVE SkipSpace(_)
SkipSpace(s) ==
  IF s # <<>> /\ Head(s) \in {" ", "\n", "\t", "\r"} THEN SkipSpace(Tail(s)) ELSE s

RECURSIVE LeadingDigits(_, _)
LeadingDigits(s, acc) ==
  IF s # <<>> /\ Head(s) \in Digits
  THEN LeadingDigits(Tail(s), acc * 10 + DigitVal(Head(s)))
  ELSE acc

\* toInt yielding 0 unless the text up to the line end is all digits
toInt_strict(s) ==
  LET t == IF HasNewline(s) THEN SubSeq(s, 1, indexOf(s, "\n")) ELSE s
  IN  IF t # <<>> /\ \A i \in 1..Len(t) : t[i] \in Digits THEN LeadingDigits(t, 0) ELSE 0

\* String::toInt() (atol): optional blanks, optional sign, leading digits, 0 if none
toInt(s) ==
  LET t == SkipSpace(s)
  IN  IF t # <<>> /\ Head(t) = "-" THEN 0 - LeadingDigits(Tail(t), 0)
      ELSE IF t # <<>> /\ Head(t) = "+" THEN LeadingDigits(Tail(t), 0)
      ELSE LeadingDigits(t, 0)

\* ------------------------------------------------------------- arithmetic
Sign(x) == IF x > 0 THEN 1 ELSE IF x < 0 THEN -1 ELSE 0
Abs(x) == IF x < 0 THEN 0 - x ELSE x
Min(a, b) == IF a < b THEN a ELSE b
Max(a, b) == IF a > b THEN a ELSE b

\* conversion of a float quotient n/d to long: truncation toward zero
TruncDiv(n, d) == IF n >= 0 THEN n \div d ELSE 0 - ((0 - n) \div d)

\* n/d rounded to the nearest integer, halves away from zero
RoundDiv(n, d) ==
  IF n >= 0 THEN (2 * n + d) \div (2 * d) ELSE 0 - ((2 * (0 - n) + d) \div (2 * d))

\* (x / 1e5) * (milli / 1e3) converted to long, without leaving 32 bits
ScaleE5(x, milli) ==
  LET a == Abs(x)
      q == a \div 100000
      r == a % 100000
      m == (q * milli + ((r * milli) \div 100000)) \div 1000
  IN  IF x >= 0 THEN m ELSE 0 - m

\* conversion of a long argument to the 16-bit int parameter of setFuel
ToInt16(x) == ((x + 32768) % 65536) - 32768

\* ------------------------------------------------------------ AccelStepper
\* state of one axis after construction
NewStepper == [cur |-> 0, tgt |-> 0, v |-> 0, maxSpeed |-> 1, acceleration |-> 1]

setMaxSpeed(ax, speed) == [ax EXCEPT !.maxSpeed = speed]

setAcceleration(ax, accel) == [ax EXCEPT !.acceleration = accel]

distanceToGo(ax) == ax.tgt - ax.cur

\* highest ramp level: the stopping distance at maxSpeed, maxSpeed^2 / (2 a)
RampMax(ax) == Max(1, (ax.maxSpeed * ax.maxSpeed) \div (2 * ax.acceleration))

\* computeNewSpeed turning round at once when the target is behind
computeNewSpeed_instant(d, v, rmax) ==
  IF d = 0 THEN 0 ELSE Sign(d) * Min(Min(Abs(v) + 1, rmax), Abs(d))

\* the level of the next step, after a step that left d steps to go:
\* ahead of the target, accelerate up to the level from which the axis can
\* still halt on the target; at or past the target, or moving away from it,
\* come down one level per step and restart toward the target from level 0
computeNewSpeed(d, v, rmax) ==
  LET l == Abs(v)
      s == Sign(v)
  IN  IF v = 0 THEN Sign(d)
      ELSE IF d * s > 0 THEN s * Max(l - 1, Min(Min(l + 1, rmax), Abs(d)))
      ELSE IF l - 1 = 0 THEN Sign(d)
      ELSE s * (l - 1)

\* sets the target; an axis at rest schedules its first step, an axis in
\* motion replans after its pending step; never steps the motor
moveTo(ax, absolute) ==
  [ax EXCEPT !.tgt = absolute,
             !.v = IF ax.v = 0 THEN Sign(absolute - ax.cur) ELSE ax.v]

move(ax, relative) == moveTo(ax, ax.cur + relative)

setCurrentPosition(ax, position) == [ax EXCEPT !.cur = position, !.tgt = position, !.v = 0]

\* one step in the direction of the pending level, then the new level
stepOnce(ax) ==
  LET c == ax.cur + Sign(ax.v)
  IN  [ax EXCEPT !.cur = c, !.v = computeNewSpeed(ax.tgt - c, ax.v, RampMax(ax))]

\* ------------------------------------------------- translating to steps
\* setSpeedMPH commanding a relative move
setSpeedMPH_relative(st, mph) ==
  [st EXCEPT !["speedo"] = move(@, ScaleE5(mph, SPEED_SCALE_MPH))]

\* mph arrives as a float, carried here in units of 1e-5 mph
setSpeedMPH(st, mph) ==
  [st EXCEPT !["speedo"] = moveTo(@, ScaleE5(mph, SPEED_SCALE_MPH))]

\* setSpeedKMH commanding the tach
setSpeedKMH_tach(st, kmh) ==
  [st EXCEPT !["tach"] = moveTo(@, ScaleE5(kmh * KMH_TO_MPH, SPEED_SCALE_MPH))]

setSpeedKMH(st, kmh) == setSpeedMPH(st, kmh * KMH_TO_MPH)

\* setRPM rounding the product to the nearest step
setRPM_rounded(st, rpm) ==
  [st EXCEPT !["tach"] = moveTo(@, RoundDiv(rpm * TACH_SCALE, 1000))]

\* setRPM declaring the position instead of commanding a move
setRPM_jump(st, rpm) ==
  [st EXCEPT !["tach"] = setCurrentPosition(@, TruncDiv(rpm * TACH_SCALE, 1000))]

setRPM(st, rpm) ==
  [st EXCEPT !["tach"] = moveTo(@, TruncDiv(rpm * TACH_SCALE, 1000))]

setFuel(st, percent) ==
  [st EXCEPT !["fuel"] = moveTo(@, TruncDiv(ToInt16(percent) * FUEL_SCALE, 100))]

\* ------------------------------------------------------------ the protocol
K_mph == <<"m", "p", "h">>
K_kmh == <<"k", "m", "h">>
K_rpm == <<"r", "p", "m">>
K_fuel == <<"f", "u", "e", "l">>
KnownKeys == {K_mph, K_kmh, K_rpm, K_fuel}

\* the axis a recognized key commands
AxisOf(k) == IF k = K_rpm THEN "tach" ELSE IF k = K_fuel THEN "fuel" ELSE "speedo"

UsageText ==
  <<"?", " ", "[", "r", "p", "m", "|", "k", "m", "h", "|", "f", "u", "e", "l",
    "|", "m", "p", "h", "]", "=", "v", "a", "l">>

\* the reply to an unrecognized key: "?" in one variant, the usage in the other
UnknownKeyReplies == {<<"?">>, UsageText}

\* lines of the host: the small script
SmallLines ==
  { <<"m", "p", "h", "=", "3", "\n">>,
    <<"m", "p", "h", "=", "0", "\n">>,
    <<"r", "p", "m", "=", "9", "0", "\n">>,
    <<"f", "u", "e", "l", "=", "1", "\n">>,
    <<"f", "o", "o", "=", "5", "\n">>,
    <<"r", "p", "m", "5", "\n">> }

\* lines of the host: the scenarios of the header comment and of the protocol
ScenarioLines ==
  { <<"r", "p", "m", "=", "3", "0", "0", "0", "\n">>,
    <<"r", "p", "m", "=", "1", "5", "0", "0", "\n">>,
    <<"k", "m", "h", "=", "1", "0", "0", "\n">>,
    <<"m", "p", "h", "=", "4", "2", "\n">>,
    <<"m", "p", "h", "=", "-", "1", "\n">>,
    <<"f", "u", "e", "l", "=", "1", "0", "0", "\n">>,
    <<"f", "u", "e", "l", "=", "1", "0", "\n">>,
    <<"f", "o", "o", "=", "5", "\n">>,
    <<"R", "P", "M", "=", "5", "\n">>,
    <<"r", "p", "m", "5", "\n">>,
    <<"=", "5", "\n">>,
    <<"r", "p", "m", "=", "a", "b", "c", "\n">>,
    <<"r", "p", "m", "=", "\n">>,
    <<"r", "p", "m", "=", "1", "8", "x", "\n">> }

\* lines of the host: a command, its reversal and a command of another axis
PairLines ==
  { <<"m", "p", "h", "=", "3", "\n">>,
    <<"m", "p", "h", "=", "0", "\n">>,
    <<"f", "u", "e", "l", "=", "1", "\n">> }

\* lines of the host: one command for each key
KeyLines ==
  { <<"m", "p", "h", "=", "3", "\n">>,
    <<"k", "m", "h", "=", "9", "\n">>,
    <<"r", "p", "m", "=", "9", "0", "\n">>,
    <<"f", "u", "e", "l", "=", "1", "\n">> }

\* ------------------------------------------------------------------ state
VARIABLES
  pc,           \* position of the main thread in setup() / loop()
  stepper,      \* the three AccelStepper objects
  stalls,       \* per axis: run() calls of this motion that found no step due
  inputReady,   \* bool inputReady
  inputString,  \* String inputString
  sepIndex,     \* parseInput: int sepIndex
  key,          \* parseInput: String key
  value,        \* parseInput: String value
  out,          \* what the current parseInput call has written and commanded
  script,       \* which lines the host sends
  pending,      \* bytes of the host's current line not yet received
  sent,         \* lines the host has sent
  lastCmd       \* per axis: key and value of the last command applied to it

vars == <<pc, stepper, stalls, inputReady, inputString, sepIndex, key, value,
          out, script, pending, sent, lastCmd>>

parseVars == <<inputReady, inputString, sepIndex, key, value, out>>
hostVars == <<script, pending, sent>>

SetupPcs == {"setup", "seek", "seek_speedo", "seek_tach", "seek_fuel",
             "offset", "offset_speedo", "offset_tach", "offset_fuel"}
ParsePcs == {"parseInput", "echo", "indexOf", "key", "value", "dispatch",
             "apply", "ack", "usage", "clear", "unready"}
RunPcs == {"run_speedo", "run_tach", "run_fuel"}

Lines ==
  IF script = "small" THEN SmallLines
  ELSE IF script = "pair" THEN PairLines
  ELSE IF script = "keys" THEN KeyLines ELSE ScenarioLines

\* lines the host sends in one run
Budget ==
  IF script = "small" THEN MaxLines ELSE IF script \in {"pair", "keys"} THEN 2 ELSE 1

Serial_print(s) == [ev |-> "print", data |-> s]
Serial_println(s) == [ev |-> "println", data |-> s]
MoveTo(a) == [ev |-> "moveTo", data |-> <<a>>]

InitWith(sc) ==
  /\ pc = "setup"
  /\ stepper = [a \in Axes |-> NewStepper]
  /\ stalls = [a \in Axes |-> 0]
  /\ inputReady = FALSE
  /\ inputString = <<>>
  /\ sepIndex = 0
  /\ key = <<>>
  /\ value = <<>>
  /\ out = <<>>
  /\ script = sc
  /\ pending = <<>>
  /\ sent = 0
  /\ lastCmd = [a \in Axes |-> <<>>]

Init == InitWith("small")

InitScenario == InitWith("scenario")

InitPair == InitWith("pair")

InitKeys == InitWith("keys")

\* ------------------------------------------------------------------ run()
\* AccelStepper::run() of axis a, called at p: nothing to do at rest; else
\* the step interval has not elapsed yet, or one step is executed
Run(a, p, q) ==
  /\ pc = p
  /\ pc' = q
  /\ \/ /\ stepper[a].v = 0
        /\ UNCHANGED <<stepper, stalls>>
     \/ /\ stepper[a].v # 0
        /\ stalls[a] < MaxStall
        /\ stalls' = [stalls EXCEPT ![a] = @ + 1]
        /\ UNCHANGED stepper
     \/ /\ stepper[a].v # 0
        /\ stepper' = [stepper EXCEPT ![a] = stepOnce(@)]
        /\ stalls' = [stalls EXCEPT ![a] = IF stepper'[a].v = 0 THEN 0 ELSE @]
  /\ UNCHANGED <<parseVars, hostVars, lastCmd>>

AllArrived == \A a \in Axes : distanceToGo(stepper[a]) = 0

\* ----------------------------------------------------------------- setup()
\* tuning and the move of -STEPS toward the stop, for the three axes
SetupSeek ==
  /\ pc = "setup"
  /\ stepper' =
       [a \in Axes |->
          LET speed == IF a = "speedo" THEN SPEEDO_SPEED
                       ELSE IF a = "tach" THEN TACH_SPEED ELSE FUEL_SPEED
              accel == IF a = "speedo" THEN SPEEDO_ACCEL
                       ELSE IF a = "tach" THEN TACH_ACCEL ELSE FUEL_ACCEL
          IN  move(setAcceleration(setMaxSpeed(stepper[a], speed), accel), 0 - STEPS)]
  /\ pc' = "seek"
  /\ UNCHANGED <<stalls, parseVars, hostVars, lastCmd>>

\* the first while loop: its test, then its body
SeekTest ==
  /\ pc = "seek"
  /\ ~AllArrived
  /\ pc' = "seek_speedo"
  /\ UNCHANGED <<stepper, stalls, parseVars, hostVars, lastCmd>>

\* SeekRun without fuel.run()
SeekRun_noFuel ==
  \/ Run("speedo", "seek_speedo", "seek_tach")
  \/ Run("tach", "seek_tach", "seek_fuel")
  \/ /\ pc = "seek_fuel"
     /\ pc' = "seek"
     /\ UNCHANGED <<stepper, stalls, parseVars, hostVars, lastCmd>>

SeekRun ==
  \/ Run("speedo", "seek_speedo", "seek_tach")
  \/ Run("tach", "seek_tach", "seek_fuel")
  \/ Run("fuel", "seek_fuel", "seek")

\* MoveToZero leaving the loop as soon as one axis has arrived
MoveToZero_any ==
  /\ pc = "seek"
  /\ \E a \in Axes : distanceToGo(stepper[a]) = 0
  /\ stepper' =
       [a \in Axes |->
          move(stepper[a], IF a = "speedo" THEN SPEEDO_ZERO
                           ELSE IF a = "tach" THEN TACH_ZERO ELSE FUEL_ZERO)]
  /\ stalls' = [a \in Axes |-> 0]
  /\ pc' = "offset"
  /\ UNCHANGED <<parseVars, hostVars, lastCmd>>

\* the loop exits; every gauge is moved by its zero offset
MoveToZero ==
  /\ pc = "seek"
  /\ AllArrived
  /\ stepper' =
       [a \in Axes |->
          move(stepper[a], IF a = "speedo" THEN SPEEDO_ZERO
                           ELSE IF a = "tach" THEN TACH_ZERO ELSE FUEL_ZERO)]
  /\ stalls' = [a \in Axes |-> 0]
  /\ pc' = "offset"
  /\ UNCHANGED <<parseVars, hostVars, lastCmd>>

\* the second while loop
OffsetTest ==
  /\ pc = "offset"
  /\ ~AllArrived
  /\ pc' = "offset_speedo"
  /\ UNCHANGED <<stepper, stalls, parseVars, hostVars, lastCmd>>

OffsetRun ==
  \/ Run("speedo", "offset_speedo", "offset_tach")
  \/ Run("tach", "offset_tach", "offset_fuel")
  \/ Run("fuel", "offset_fuel", "offset")

\* DeclareZero without the setCurrentPosition(0) calls
DeclareZero_noOrigin ==
  /\ pc = "offset"
  /\ AllArrived
  /\ stepper' = setFuel(setSpeedMPH(setRPM(stepper, 0), 0), 0)
  /\ stalls' = [a \in Axes |-> 0]
  /\ inputReady' = FALSE
  /\ pc' = "parseInput"
  /\ UNCHANGED <<inputString, sepIndex, key, value, out, hostVars, lastCmd>>

\* the loop exits: this spot is absolute zero, the gauges rest at 0, and
\* the serial port is opened
DeclareZero ==
  /\ pc = "offset"
  /\ AllArrived
  /\ stepper' =
       setFuel(setSpeedMPH(setRPM(
         [a \in Axes |-> setCurrentPosition(stepper[a], 0)], 0), 0), 0)
  /\ stalls' = [a \in Axes |-> 0]
  /\ inputReady' = FALSE
  /\ pc' = "parseInput"
  /\ UNCHANGED <<inputString, sepIndex, key, value, out, hostVars, lastCmd>>

\* ------------------------------------------------------ host and receiver
\* the host starts to send a line (the port is open once setup() is over)
HostSend ==
  /\ pc \notin SetupPcs
  /\ pending = <<>>
  /\ sent < Budget
  /\ \E l \in Lines : pending' = l
  /\ sent' = sent + 1
  /\ UNCHANGED <<pc, stepper, stalls, parseVars, script, lastCmd>>

\* serialEvent assigning the received bytes instead of appending them
serialEvent_overwrite ==
  /\ pc \notin SetupPcs
  /\ \E k \in 1..Len(pending) :
       LET chunk == SubSeq(pending, 1, k)
       IN  /\ inputString' = chunk
           /\ inputReady' = IF \E i \in 1..k : chunk[i] = "\n" THEN TRUE
                            ELSE inputReady
           /\ pending' = SubSeq(pending, k + 1, Len(pending))
  /\ UNCHANGED <<pc, stepper, stalls, sepIndex, key, value, out, script, sent,
                 lastCmd>>

\* serialEvent(): the bytes available are appended; a newline raises the flag
serialEvent ==
  /\ pc \notin SetupPcs
  /\ \E k \in 1..Len(pending) :
       LET chunk == SubSeq(pending, 1, k)
       IN  /\ inputString' = inputString \o chunk
           /\ inputReady' = IF \E i \in 1..k : chunk[i] = "\n" THEN TRUE
                            ELSE inputReady
           /\ pending' = SubSeq(pending, k + 1, Len(pending))
  /\ UNCHANGED <<pc, stepper, stalls, sepIndex, key, value, out, script, sent,
                 lastCmd>>

\* ------------------------------------------------------------ parseInput()
\* if (inputReady)
ParseTest ==
  /\ pc = "parseInput"
  /\ pc' = IF inputReady THEN "echo" ELSE "run_speedo"
  /\ UNCHANGED <<stepper, stalls, parseVars, hostVars, lastCmd>>

\* Serial.print(inputString)
Echo ==
  /\ pc = "echo"
  /\ out' = <<Serial_print(inputString)>>
  /\ pc' = "indexOf"
  /\ UNCHANGED <<stepper, stalls, inputReady, inputString, sepIndex, key, value,
                 hostVars, lastCmd>>

\* FindSeparator testing sepIndex >= 0
FindSeparator_geq ==
  /\ pc = "indexOf"
  /\ sepIndex' = indexOf(inputString, "=")
  /\ pc' = IF sepIndex' >= 0 THEN "key" ELSE "usage"
  /\ UNCHANGED <<stepper, stalls, inputReady, inputString, key, value, out,
                 hostVars, lastCmd>>

\* int sepIndex = inputString.indexOf('='); if (sepIndex > 0)
FindSeparator ==
  /\ pc = "indexOf"
  /\ sepIndex' = indexOf(inputString, "=")
  /\ pc' = IF sepIndex' > 0 THEN "key" ELSE "usage"
  /\ UNCHANGED <<stepper, stalls, inputReady, inputString, key, value, out,
                 hostVars, lastCmd>>

\* String key = inputString.substring(0, sepIndex)
TakeKey ==
  /\ pc = "key"
  /\ key' = substring(inputString, 0, sepIndex)
  /\ pc' = "value"
  /\ UNCHANGED <<stepper, stalls, inputReady, inputString, sepIndex, value, out,
                 hostVars, lastCmd>>

\* String value = inputString.substring(sepIndex+1)
TakeValue ==
  /\ pc = "value"
  /\ value' = substringFrom(inputString, sepIndex + 1)
  /\ pc' = "dispatch"
  /\ UNCHANGED <<stepper, stalls, inputReady, inputString, sepIndex, key, out,
                 hostVars, lastCmd>>

\* Dispatch whose last comparison is an unconditional else
Dispatch_noElse ==
  /\ pc = "dispatch"
  /\ out' = Append(out, Serial_print(<<"o">>))
  /\ pc' = "apply"
  /\ UNCHANGED <<stepper, stalls, inputReady, inputString, sepIndex, key, value,
                 hostVars, lastCmd>>

\* the chain of key comparisons: "o" for a command, the "?" reply otherwise
Dispatch ==
  /\ pc = "dispatch"
  /\ \/ /\ key \in KnownKeys
        /\ out' = Append(out, Serial_print(<<"o">>))
        /\ pc' = "apply"
     \/ /\ key \notin KnownKeys
        /\ \E reply \in UnknownKeyReplies : out' = Append(out, Serial_println(reply))
        /\ pc' = "clear"
  /\ UNCHANGED <<stepper, stalls, inputReady, inputString, sepIndex, key, value,
                 hostVars, lastCmd>>

\* the set* call of the branch taken, with value.toInt()
ApplyCommand(st, k, n) ==
  IF k = K_mph THEN setSpeedMPH(st, n * 100000)
  ELSE IF k = K_kmh THEN setSpeedKMH(st, n)
  ELSE IF k = K_rpm THEN setRPM(st, n)
  ELSE setFuel(st, n)

\* Apply running the commanded axis to its target before it returns
Apply_blocking ==
  /\ pc = "apply"
  /\ stepper' =
       [a \in Axes |->
          LET st == ApplyCommand(stepper, key, toInt(value))[a]
          IN  IF a = AxisOf(key) THEN setCurrentPosition(st, st.tgt) ELSE st]
  /\ stalls' = [stalls EXCEPT ![AxisOf(key)] = 0]
  /\ lastCmd' = [lastCmd EXCEPT ![AxisOf(key)] = <<key, toInt(value)>>]
  /\ out' = Append(out, MoveTo(AxisOf(key)))
  /\ pc' = "ack"
  /\ UNCHANGED <<inputReady, inputString, sepIndex, key, value, hostVars>>

Apply ==
  /\ pc = "apply"
  /\ stepper' = ApplyCommand(stepper, key, toInt(value))
  /\ stalls' = [stalls EXCEPT ![AxisOf(key)] =
                  IF stepper'[AxisOf(key)] = stepper[AxisOf(key)] THEN @ ELSE 0]
  /\ lastCmd' = [lastCmd EXCEPT ![AxisOf(key)] = <<key, toInt(value)>>]
  /\ out' = Append(out, MoveTo(AxisOf(key)))
  /\ pc' = "ack"
  /\ UNCHANGED <<inputReady, inputString, sepIndex, key, value, hostVars>>

\* Ack writing "k" without the line end
Ack_noNewline ==
  /\ pc = "ack"
  /\ out' = Append(out, Serial_print(<<"k">>))
  /\ pc' = "clear"
  /\ UNCHANGED <<stepper, stalls, inputReady, inputString, sepIndex, key, value,
                 hostVars, lastCmd>>

\* Serial.println("k")
Ack ==
  /\ pc = "ack"
  /\ out' = Append(out, Serial_println(<<"k">>))
  /\ pc' = "clear"
  /\ UNCHANGED <<stepper, stalls, inputReady, inputString, sepIndex, key, value,
                 hostVars, lastCmd>>

\* Serial.println("? [rpm|kmh|fuel|mph]=val")
Usage ==
  /\ pc = "usage"
  /\ out' = Append(out, Serial_println(UsageText))
  /\ pc' = "clear"
  /\ UNCHANGED <<stepper, stalls, inputReady, inputString, sepIndex, key, value,
                 hostVars, lastCmd>>

\* ClearInput dropping the first line only
ClearInput_firstLine ==
  /\ pc = "clear"
  /\ inputString' = SubSeq(inputString, indexOf(inputString, "\n") + 2, Len(inputString))
  /\ pc' = "unready"
  /\ UNCHANGED <<stepper, stalls, inputReady, sepIndex, key, value, out,
                 hostVars, lastCmd>>

\* inputString = ""
ClearInput ==
  /\ pc = "clear"
  /\ inputString' = <<>>
  /\ pc' = "unready"
  /\ UNCHANGED <<stepper, stalls, inputReady, sepIndex, key, value, out,
                 hostVars, lastCmd>>

\* inputReady = false; parseInput returns
ClearReady ==
  /\ pc = "unready"
  /\ inputReady' = FALSE
  /\ sepIndex' = 0
  /\ key' = <<>>
  /\ value' = <<>>
  /\ out' = <<>>
  /\ pc' = "run_speedo"
  /\ UNCHANGED <<stepper, stalls, inputString, hostVars, lastCmd>>

parseInput ==
  \/ ParseTest \/ Echo \/ FindSeparator \/ TakeKey \/ TakeValue \/ Dispatch
  \/ Apply \/ Ack \/ Usage \/ ClearInput \/ ClearReady

\* ------------------------------------------------------------------ loop()
\* LoopRun without speedo.run()
LoopRun_noSpeedo ==
  \/ /\ pc = "run_speedo"
     /\ pc' = "run_tach"
     /\ UNCHANGED <<stepper, stalls, parseVars, hostVars, lastCmd>>
  \/ Run("tach", "run_tach", "run_fuel")
  \/ Run("fuel", "run_fuel", "parseInput")

\* LoopRun calling fuel.run() twice and speedo.run() never
LoopRun_fuelTwice ==
  \/ Run("fuel", "run_speedo", "run_tach")
  \/ Run("tach", "run_tach", "run_fuel")
  \/ Run("fuel", "run_fuel", "parseInput")

LoopRun ==
  \/ Run("speedo", "run_speedo", "run_tach")
  \/ Run("tach", "run_tach", "run_fuel")
  \/ Run("fuel", "run_fuel", "parseInput")

setup == SetupSeek \/ SeekTest \/ SeekRun \/ MoveToZero \/ OffsetTest \/ OffsetRun \/ DeclareZero

loop == parseInput \/ LoopRun

Main == setup \/ loop

Next == Main \/ HostSend \/ serialEvent

Spec == Init /\ [][Next]_vars

SpecScenario == InitScenario /\ [][Next]_vars

SpecKeys == InitKeys /\ [][Next]_vars

\* the processor keeps executing the main thread
FairSpec == InitPair /\ [][Next]_vars /\ WF_vars(Main)

\* ---------------------------------------------------------------- helpers
IsPrefix(p, s) == Len(p) <= Len(s) /\ SubSeq(s, 1, Len(p)) = p

\* the text up to and including the first newline
FirstLine(s) == IF HasNewline(s) THEN SubSeq(s, 1, indexOf(s, "\n") + 1) ELSE s

\* the buffer as parseInput split it
ParsedLine == key \o <<"=">> \o value

Settled(a) == stepper[a].v = 0 /\ distanceToGo(stepper[a]) = 0

\* a parseInput call has taken the command branch / the unknown-key branch
Accepted == sepIndex > 0 /\ key \in KnownKeys
Unknown == sepIndex > 0 /\ key \notin KnownKeys

\* (x / 1e5) * (milli / 1e3) rounded to the nearest integer, for x >= 0
RoundE5(x, milli) ==
  LET q == x \div 100000
      r == x % 100000
  IN  (q * milli + ((r * milli + 50000000) \div 100000)) \div 1000

\* round(value * scaleFactor[key])
RoundedSteps(k, n) ==
  IF k = K_mph THEN RoundDiv(n * SPEED_SCALE_MPH, 1000)
  ELSE IF k = K_kmh THEN RoundE5(n * KMH_TO_MPH, SPEED_SCALE_MPH)
  ELSE IF k = K_rpm THEN RoundDiv(n * TACH_SCALE, 1000)
  ELSE RoundDiv(n * FUEL_SCALE, 100)

\* t is num/den * n with the fraction dropped
IsTruncation(t, n, num, den) ==
  /\ Abs(t) * den <= Abs(n) * num
  /\ Abs(n) * num < (Abs(t) + 1) * den
  /\ t # 0 => Sign(t) = Sign(n)

\* ------------------------------------------------------------------ claims
\* C1 as stated: an accepted key=value sets the target of its axis to
\* round(value * scaleFactor[key]); kmh=100 gives 110.9 rounded
C1_RoundedTarget ==
  pc = "ack" => stepper[AxisOf(key)].tgt = RoundedSteps(key, toInt(value))

\* C1 amended: an accepted key=value sets the target of its axis to
\* value * scaleFactor[key] with the fraction dropped (the conversion of the
\* float product to moveTo's long): rpm=3000 gives 171, kmh=100 gives 110
C1_TruncatedTarget ==
  pc = "ack" =>
    LET n == toInt(value)
        t == stepper[AxisOf(key)].tgt
    IN  /\ key = K_mph => IsTruncation(t, n, 1785, 1000)
        /\ key = K_rpm => IsTruncation(t, n, 57, 1000)
        /\ key = K_fuel => IsTruncation(t, n, 325, 100)
        /\ key = K_kmh /\ n = 100 => t = 110
        /\ key = K_rpm /\ n = 3000 => t = 171

C1_Witness ==
  /\ pc = "ack"
  /\ key = K_kmh
  /\ toInt(value) = 100
  /\ stepper["speedo"].tgt = 110

\* C3: when setup() returns every axis has currentPositionSteps = 0 and
\* targetPositionSteps = 0
C3_HomedAtZero ==
  [][pc = "offset" /\ pc' = "parseInput" =>
       \A a \in Axes : stepper'[a].cur = 0 /\ stepper'[a].tgt = 0 /\ Settled(a)']_vars

C3_Witness ==
  /\ pc = "parseInput"
  /\ sent = 0
  /\ \A a \in Axes : stepper[a].cur = 0 /\ stepper[a].tgt = 0
  /\ stepper["tach"].maxSpeed = TACH_SPEED

\* C4: a line whose key is none of mph, kmh, rpm, fuel is echoed, answered
\* with a reply that starts with "?" and no "o"/"k", and moves no target
C4_UnknownKey ==
  LET sep == indexOf(inputString, "=")
  IN  pc = "clear" /\ sep > 0 /\ substring(inputString, 0, sep) \notin KnownKeys =>
        /\ Len(out) = 2
        /\ out[1] = Serial_print(inputString)
        /\ out[2].ev = "println"
        /\ out[2].data[1] = "?"
        /\ \A a \in Axes : stepper[a].tgt = 0 /\ Settled(a)

C4_Witness ==
  /\ pc = "clear"
  /\ inputString = <<"R", "P", "M", "=", "5", "\n">>
  /\ Len(out) = 2
  /\ out[2].data[1] = "?"

\* C5: a line with no "=" or with "=" as its first character is answered
\* with the usage reply and moves no target
C5_MissingSeparator ==
  pc = "clear" /\ indexOf(inputString, "=") <= 0 =>
    /\ out = <<Serial_print(inputString), Serial_println(UsageText)>>
    /\ \A a \in Axes : stepper[a].tgt = 0 /\ Settled(a)

C5_Witness ==
  /\ pc = "clear"
  /\ inputString = <<"=", "5", "\n">>
  /\ out[2] = Serial_println(UsageText)

\* C6: for an accepted command one parseInput call echoes the line, writes
\* "o", updates the target of the axis, then writes "k" and a newline, and
\* nothing else
C6_AckOrder ==
  /\ pc = "apply" => Len(out) = 2
  /\ pc = "ack" => Len(out) = 3
  /\ pc \in {"clear", "unready"} /\ Accepted => Len(out) = 4
  /\ pc \in {"apply", "ack", "clear", "unready"} /\ Accepted =>
       /\ out[1].ev = "print"
       /\ IsPrefix(out[1].data, ParsedLine)
       /\ HasNewline(out[1].data)
       /\ FirstLine(out[1].data) = FirstLine(ParsedLine)
       /\ out[2] = Serial_print(<<"o">>)
       /\ Len(out) >= 3 => out[3] = MoveTo(AxisOf(key))
       /\ Len(out) >= 4 => out[4] = Serial_println(<<"k">>)

C6_Witness ==
  /\ pc = "clear"
  /\ Accepted
  /\ Len(out) = 4
  /\ Len(out[1].data) < Len(ParsedLine)

\* C7 as stated: "k" is never written while the commanded axis still has
\* distanceToGo() # 0
C7_AckAfterSettled ==
  pc = "clear" /\ Accepted /\ Len(out) = 4 => distanceToGo(stepper[AxisOf(key)]) = 0

\* C7 amended: "k" is written right after moveTo, before any step of the
\* commanded motion; after rpm=3000 it is written with the tach still at 0
\* and distanceToGo() = 171
C7_AckBeforeMotion ==
  pc = "clear" /\ Accepted /\ Len(out) = 4 =>
    /\ out[4] = Serial_println(<<"k">>)
    /\ \A a \in Axes : stepper[a].cur = 0
    /\ key = K_rpm /\ toInt(value) = 3000 => distanceToGo(stepper["tach"]) = 171

C7_Witness ==
  /\ pc = "clear"
  /\ key = K_rpm
  /\ toInt(value) = 3000
  /\ Len(out) = 4
  /\ distanceToGo(stepper["tach"]) = 171

\* C2: after homing, an axis that was given a command comes to rest on its
\* target, and an axis at rest on its target stays there until a command
\* for it is applied
C2_Converges ==
  /\ \A a \in Axes : (pc = "ack" /\ AxisOf(key) = a) ~> Settled(a)
  /\ [][\A a \in Axes :
          pc \notin SetupPcs /\ Settled(a) /\ ~(pc = "apply" /\ AxisOf(key) = a)
            => Settled(a)']_vars

C2_Witness ==
  /\ lastCmd["speedo"] = <<K_mph, 3>>
  /\ stepper["speedo"].cur = 5
  /\ Settled("speedo")
  /\ pc \in RunPcs
  /\ out = <<>>

\* C8: no byte the receive handler appended is erased by the clear of
\* parseInput without having been part of the line parseInput split
C8_NoByteLost ==
  pc = "clear" /\ sepIndex > 0 => inputString = ParsedLine

\* C9: a command equal to the last one applied to its axis, parsed while the
\* axis rests on its target, changes neither the target nor the position and
\* leaves distanceToGo() at 0, so that run() executes no step
C9_Idempotent ==
  [][LET a == AxisOf(key)
     IN  pc = "apply" /\ pc' = "ack" /\ lastCmd[a] = <<key, toInt(value)>> /\ Settled(a)
           => stepper'[a] = stepper[a] /\ Settled(a)']_vars

C9_Witness ==
  /\ sent = 2
  /\ pc = "ack"
  /\ key = K_mph
  /\ toInt(value) = 3
  /\ stepper["speedo"].cur = 5
  /\ Settled("speedo")

\* C10: a step in the direction opposite to the pending one is scheduled
\* only after a step at the lowest level; every step goes in the direction
\* of the pending level, and with the target behind each step lowers the
\* level by one
C10_DecelerateBeforeReverse ==
  [][\A a \in Axes :
       LET s == stepper[a]
           t == stepper'[a]
       IN  /\ s.v # 0 /\ t.v # 0 /\ Sign(s.v) # Sign(t.v) => Abs(s.v) = 1
           /\ s.v # 0 /\ t.cur # s.cur => t.cur = s.cur + Sign(s.v)
           /\ s.v # 0 /\ t.cur # s.cur /\ (s.tgt - t.cur) * Sign(s.v) < 0 /\ Abs(s.v) > 1
                => t.v = s.v - Sign(s.v)]_vars

C10_Witness ==
  /\ lastCmd["speedo"] = <<K_mph, 0>>
  /\ stepper["speedo"].tgt = 0
  /\ stepper["speedo"].cur = 4
  /\ stepper["speedo"].v = 1
\* the pcs at which run() of axis a is called
RunPcsOf(a) == {"seek_" \o a, "offset_" \o a, "run_" \o a}

\* C11: currentPositionSteps of an axis changes only by one step in a run()
\* of that axis, except for the setCurrentPosition(0) at the end of homing;
\* parseInput and serialEvent never change it
C11_PositionBySteps ==
  [][\A a \in Axes :
       stepper'[a].cur # stepper[a].cur =>
         \/ /\ pc \in RunPcsOf(a)
            /\ Abs(stepper'[a].cur - stepper[a].cur) = 1
         \/ /\ pc = "offset"
            /\ pc' = "parseInput"
            /\ stepper'[a].cur = 0]_vars

C11_Witness ==
  /\ pc = "ack"
  /\ key = K_rpm
  /\ stepper["tach"].tgt = 5
  /\ stepper["tach"].cur = 0
  /\ stepper["speedo"].cur = 2

\* C12 as stated: a parseInput call that found inputReady true ends with
\* the buffer empty and inputReady false; a call that finds inputReady false
\* changes neither the buffer nor a target and writes nothing
C12_CallEndsClean ==
  [][/\ pc = "unready" /\ pc' = "run_speedo" => inputString' = <<>> /\ ~inputReady'
     /\ pc = "parseInput" /\ pc' # pc /\ ~inputReady =>
          /\ pc' = "run_speedo"
          /\ inputString' = inputString
          /\ stepper' = stepper
          /\ out' = out
          /\ out = <<>>]_vars

\* C13: serialEvent appends the received bytes to the buffer and raises the
\* flag on a newline; it writes nothing, parses nothing and leaves every
\* target and position as they are
C13_ReceiveOnlyAppends ==
  [][Len(pending') < Len(pending) =>
       LET k == Len(pending) - Len(pending')
       IN  /\ inputString' = inputString \o SubSeq(pending, 1, k)
           /\ inputReady' = (inputReady \/ HasNewline(SubSeq(pending, 1, k)))
           /\ stepper' = stepper
           /\ out' = out
           /\ pc' = pc
           /\ <<sepIndex, key, value>>' = <<sepIndex, key, value>>]_vars

C13_Witness ==
  /\ pc = "dispatch"
  /\ inputReady
  /\ Len(inputString) > Len(ParsedLine)
  /\ pending # <<>>
  /\ ~HasNewline(SubSeq(inputString, Len(ParsedLine) + 1, Len(inputString)))
\* C14: an accepted command moves the target of the axis of its key only:
\* mph and kmh the speedo, rpm the tach, fuel the fuel gauge; the other two
\* axes are left as they are, and no other statement of parseInput moves a
\* target
C14_OneAxis ==
  [][/\ pc = "apply" /\ pc' = "ack" =>
          /\ key \in {K_mph, K_kmh} =>
               /\ stepper'["tach"] = stepper["tach"]
               /\ stepper'["fuel"] = stepper["fuel"]
               /\ out'[3] = MoveTo("speedo")
          /\ key = K_rpm =>
               /\ stepper'["speedo"] = stepper["speedo"]
               /\ stepper'["fuel"] = stepper["fuel"]
               /\ out'[3] = MoveTo("tach")
          /\ key = K_fuel =>
               /\ stepper'["speedo"] = stepper["speedo"]
               /\ stepper'["tach"] = stepper["tach"]
               /\ out'[3] = MoveTo("fuel")
     /\ pc \in ParsePcs \ {"apply"} =>
          \A a \in Axes : stepper'[a].tgt = stepper[a].tgt]_vars

C14_Witness ==
  /\ pc = "ack"
  /\ key = K_kmh
  /\ stepper["speedo"].tgt = 9
  /\ stepper["tach"].tgt = 5
  /\ stepper["fuel"].tgt = 0
\* C15: a recognized key with a value without leading digits is acknowledged
\* and commands 0; leading digits followed by other characters command the
\* number the digits spell
C15_LenientValue ==
  pc = "clear" /\ key = K_rpm =>
    LET v == SubSeq(inputString, 5, Len(inputString))
    IN  /\ v \in {<<"a", "b", "c", "\n">>, <<"\n">>} =>
             /\ out = <<Serial_print(inputString), Serial_print(<<"o">>),
                        MoveTo("tach"), Serial_println(<<"k">>)>>
             /\ lastCmd["tach"] = <<K_rpm, 0>>
             /\ stepper["tach"].tgt = 0
        /\ v = <<"1", "8", "x", "\n">> =>
             /\ out = <<Serial_print(inputString), Serial_print(<<"o">>),
                        MoveTo("tach"), Serial_println(<<"k">>)>>
             /\ lastCmd["tach"] = <<K_rpm, 18>>
             /\ stepper["tach"].tgt = 1

C15_Witness ==
  /\ pc = "clear"
  /\ inputString = <<"r", "p", "m", "=", "a", "b", "c", "\n">>
  /\ Len(out) = 4
  /\ lastCmd["tach"] = <<K_rpm, 0>>
\* the calibration offset of an axis
ZeroOf(a) == IF a = "speedo" THEN SPEEDO_ZERO ELSE IF a = "tach" THEN TACH_ZERO ELSE FUEL_ZERO

\* C16: an iteration of loop() is one parseInput call, then run() of the
\* speedo, of the tach and of the fuel gauge, once each and in this order,
\* each moving its own axis only; the iterations never end
C16_LoopOrder ==
  /\ [][/\ pc \in ParsePcs /\ pc' \notin ParsePcs => pc' = "run_speedo"
        /\ pc = "run_speedo" /\ pc' # pc => pc' = "run_tach"
        /\ pc = "run_tach" /\ pc' # pc => pc' = "run_fuel"
        /\ pc = "run_fuel" /\ pc' # pc => pc' = "parseInput"
        /\ pc \in ParsePcs /\ pc' \in ParsePcs /\ pc' # pc => pc' # "parseInput"
        /\ \A a \in Axes : stepper'[a] # stepper[a] /\ pc \in RunPcs => pc = "run_" \o a]_vars
  /\ []((pc = "parseInput") => <>(pc = "run_fuel"))
  /\ []((pc = "run_fuel") => <>(pc = "parseInput"))

C16_Witness ==
  /\ pc = "run_fuel"
  /\ stepper["speedo"].cur = 3
  /\ stepper["fuel"].cur = 1
  /\ stepper["fuel"].v # 0

\* C17: the zero-offset moves are commanded only when every axis has
\* arrived at -STEPS, the origin is declared only when every axis has
\* arrived at its offset, and no target is commanded in between
C17_HomingBarriers ==
  /\ [][/\ pc = "seek" /\ pc' = "offset" =>
             \A a \in Axes : Settled(a) /\ stepper[a].cur = 0 - STEPS
        /\ pc = "offset" /\ pc' = "parseInput" =>
             \A a \in Axes : Settled(a) /\ stepper[a].cur = ZeroOf(a) - STEPS]_vars
  /\ [](pc \in {"seek", "seek_speedo", "seek_tach", "seek_fuel"} =>
          \A a \in Axes : stepper[a].tgt = 0 - STEPS)
  /\ [](pc \in {"offset", "offset_speedo", "offset_tach", "offset_fuel"} =>
          \A a \in Axes : stepper[a].tgt = ZeroOf(a) - STEPS)

C17_Witness ==
  /\ pc = "offset_tach"
  /\ Settled("speedo")
  /\ stepper["speedo"].cur = SPEEDO_ZERO - STEPS
  /\ ~Settled("tach")
  /\ ~Settled("fuel")

\* C19: homing terminates: both loops of setup() exit and setup() reaches
\* its end with the port open and inputReady false
C19_HomingTerminates ==
  <>(pc = "parseInput" /\ ~inputReady /\ sent = 0)

C19_Witness ==
  /\ pc = "parseInput"
  /\ ~inputReady
  /\ inputString = <<>>
  /\ sent = 0
  /\ \A a \in Axes : Settled(a) /\ stepper[a].maxSpeed > 1
\* the number of newlines in a text
Newlines(s) == Cardinality({i \in 1..Len(s) : s[i] = "\n"})

\* the println events of a log
Replies(log) == {i \in 1..Len(log) : log[i].ev = "println"}

\* C18: two complete lines in the buffer are handled by one parseInput call
\* as one line: the key is the text before the first "=", the value the
\* leading integer after it, one reply is written, the whole buffer is
\* cleared and the command of the second line is applied to no axis
C18_MergedLines ==
  /\ [](pc = "clear" /\ Newlines(inputString) >= 2 =>
          LET sep == indexOf(inputString, "=")
          IN  /\ Cardinality(Replies(out)) = 1
              /\ Len(out) \in {2, 4}
              /\ sepIndex > 0 => sepIndex = sep /\ key = substring(inputString, 0, sep)
              /\ Accepted =>
                   lastCmd[AxisOf(key)] =
                     <<key, toInt(FirstLine(substringFrom(inputString, sep + 1)))>>
              /\ pending = <<>> /\ sent = Newlines(inputString) =>
                   \A a \in Axes :
                     lastCmd[a] # <<>> \/ stepper[a].tgt # 0 => Accepted /\ a = AxisOf(key))
  /\ [][pc = "clear" /\ pc' = "unready" => inputString' = <<>> /\ stepper' = stepper]_vars

C18_Witness ==
  /\ pc = "clear"
  /\ inputString = <<"m", "p", "h", "=", "3", "\n", "f", "u", "e", "l", "=", "1", "\n">>
  /\ value = <<"3", "\n", "f", "u", "e", "l", "=", "1", "\n">>
  /\ Len(out) = 4
  /\ stepper["speedo"].tgt = 5
  /\ stepper["fuel"].tgt = 0

\* C20 as stated: after setup, whenever inputReady is false the buffer
\* holds no newline
C20_NoUnflaggedLine ==
  pc \notin SetupPcs /\ ~inputReady => ~HasNewline(inputString)
====
